---- MODULE Spec2Model ----
(***************************************************************************)
(* Model of demux_drumless.py: the drumless-folder pipeline.  File names   *)
(* are sequences of ASCII codes, a path is a sequence of names (its        *)
(* components relative to the working directory), so that lower-casing,    *)
(* splitext, prefix tests and the sort key are computed as the code        *)
(* computes them.                                                          *)
(***************************************************************************)
EXTENDS Integers, Sequences, FiniteSets, TLC

\* ------------------------------------------------------------------ bounds
\* most files in the working tree at start of a run
MaxFiles == 2
\* most files in the tree handed to discovery alone
MaxDiscFiles == 3
\* detected peaks range from MaxPeakDelta below -0.1 dB to MaxPeakDelta above, in tenths
MaxPeakDelta == 1
\* most pictures in a file, and the number of different pictures
MaxPics == 2

\* ------------------------------------------------------------------ names
\* "separated"
nmSeparated == <<115,101,112,97,114,97,116,101,100>>
\* "normalised"
nmNormalisedLc == <<110,111,114,109,97,108,105,115,101,100>>
\* "Normalised"
nmNormalised == <<78,111,114,109,97,108,105,115,101,100>>
\* "staging.flac"
nmStaging == <<115,116,97,103,105,110,103,46,102,108,97,99>>
\* " - Drumless.flac"
sfxDrumless == <<32,45,32,68,114,117,109,108,101,115,115,46,102,108,97,99>>
\* ".mp3"
extMp3 == <<46,109,112,51>>

\* .flac .wav .m4a .mp4 .mp3 .alac
SUPPORTED_INPUT_EXTENSIONS ==
    { <<46,102,108,97,99>>, <<46,119,97,118>>, <<46,109,52,97>>,
      <<46,109,112,52>>, <<46,109,112,51>>, <<46,97,108,97,99>> }

\* ------------------------------------------------------------------ strings
\* str.lower() on one ASCII character
LowerChar(c) == IF c \in 65..90 THEN c + 32 ELSE c

\* str.lower()
Lower(s) == [i \in 1..Len(s) |-> LowerChar(s[i])]

\* str.startswith(prefix)
StartsWith(s, prefix) ==
    /\ Len(s) >= Len(prefix)
    /\ SubSeq(s, 1, Len(prefix)) = prefix

\* index of the last "." of a name, 0 when it has none
LastDot(name) ==
    IF \E i \in 1..Len(name) : name[i] = 46
    THEN CHOOSE i \in 1..Len(name) :
            /\ name[i] = 46
            /\ \A j \in (i+1)..Len(name) : name[j] # 46
    ELSE 0

\* where os.path.splitext cuts a name: the last dot, unless only dots
\* precede it (a leading-dot name has no extension); 0 for "no extension"
SplitAt(name) ==
    LET d == LastDot(name)
    IN IF d > 0 /\ \E i \in 1..(d-1) : name[i] # 46 THEN d ELSE 0

\* os.path.splitext(name)[0]
SplitextRoot(name) ==
    IF SplitAt(name) = 0 THEN name ELSE SubSeq(name, 1, SplitAt(name) - 1)

\* os.path.splitext(name)[1]
SplitextExt(name) ==
    IF SplitAt(name) = 0 THEN << >> ELSE SubSeq(name, SplitAt(name), Len(name))

\* ------------------------------------------------------------------ paths
\* the last component of a path
Basename(p) == p[Len(p)]

\* os.path.dirname: the components before the last
Dirname(p) == SubSeq(p, 1, Len(p) - 1)

RECURSIVE PathStr(_)
\* the relative path as one string, components joined by "/"
PathStr(p) ==
    IF Len(p) = 1 THEN p[1]
    ELSE p[1] \o <<47>> \o PathStr(Tail(p))

RECURSIVE StrLeq(_, _)
\* Python's <= on strings: lexicographic on the character codes
StrLeq(a, b) ==
    IF a = << >> THEN TRUE
    ELSE IF b = << >> THEN FALSE
    ELSE IF a[1] # b[1] THEN a[1] < b[1]
    ELSE StrLeq(Tail(a), Tail(b))

\* the sort key of find_audio_files: lambda p: p.lower()
SortKey(p) == Lower(PathStr(p))

RECURSIVE SetToSeq(_)
\* the entries of a directory in the order the operating system lists them
\* (not specified by the code: one arbitrary fixed order)
SetToSeq(S) ==
    IF S = {} THEN << >>
    ELSE LET x == CHOOSE y \in S : TRUE IN <<x>> \o SetToSeq(S \ {x})

\* ------------------------------------------------------------------ discovery
\* mutant of KeepDir: the names compared without lower-casing
KeepDirCaseSensitive(d) ==
    /\ d # nmSeparated
    /\ ~StartsWith(d, nmNormalisedLc)

\* mutant of KeepDir: only the scratch directory is pruned
KeepDirSeparatedOnly(d) == Lower(d) # nmSeparated

\* the directory filter of find_audio_files
KeepDir(d) ==
    /\ Lower(d) # nmSeparated
    /\ ~StartsWith(Lower(d), nmNormalisedLc)

\* the file filter of find_audio_files
HasSupportedExt(filename, extensions) ==
    Lower(SplitextExt(filename)) \in extensions

\* p lies in or below directory dir
Under(p, dir) == Len(p) > Len(dir) /\ SubSeq(p, 1, Len(dir)) = dir

RECURSIVE WalkDirs(_, _, _, _)
RECURSIVE Walk(_, _, _)
\* os.walk, top-down, below dir, with dirnames pruned in place
Walk(fs, dir, extensions) ==
    LET here     == { p \in fs : Under(p, dir) /\ Len(p) = Len(dir) + 1 }
        names    == { p[Len(dir) + 1] : p \in { q \in fs : Under(q, dir) /\ Len(q) > Len(dir) + 1 } }
        dirnames == { d \in names : KeepDir(d) }
        found    == SelectSeq(SetToSeq(here),
                              LAMBDA p : HasSupportedExt(Basename(p), extensions))
    IN found \o WalkDirs(fs, dir, SetToSeq(dirnames), extensions)

\* the recursion of os.walk into the directories that were kept
WalkDirs(fs, dir, dirnames, extensions) ==
    IF dirnames = << >> THEN << >>
    ELSE Walk(fs, dir \o <<Head(dirnames)>>, extensions)
         \o WalkDirs(fs, dir, Tail(dirnames), extensions)

RECURSIVE InsertSorted(_, _)
\* place x behind every element whose key is <= its own (a stable sort step)
InsertSorted(x, s) ==
    IF s = << >> THEN <<x>>
    ELSE IF StrLeq(SortKey(Head(s)), SortKey(x))
         THEN <<Head(s)>> \o InsertSorted(x, Tail(s))
         ELSE <<x>> \o s

RECURSIVE Sorted(_)
\* sorted(audio_paths, key=lambda p: p.lower()), stable
Sorted(s) ==
    IF s = << >> THEN << >>
    ELSE InsertSorted(s[Len(s)], Sorted(SubSeq(s, 1, Len(s) - 1)))

find_audio_files(fs, extensions) == Sorted(Walk(fs, << >>, extensions))


\* ------------------------------------------------------------------ state
VARIABLES
    files,                  \* paths of the regular files in the working tree
    orig,                   \* those of them that still hold their initial contents
    sepExists,              \* the scratch directory ./separated exists
    sepStems,               \* whose non-drum stems lie in it: a Track's index, 0 = left by an earlier run
    pc,                     \* position of main()
    missing,                \* the dependencies found missing at startup
    demucs_model,
    is_compilation,
    create_normalized,
    audio_files,
    idx,                    \* index of the Track of the current loop iteration
    peak_level,             \* << >> is None, <<p>> a peak in tenths of a dB
    gain_db,                \* << >> is None, <<g>> a gain in tenths of a dB
    final_files_list,
    appendedBy,             \* history: the Track index behind each entry of final_files_list
    outcome,                \* history: per Track, the stage it failed at, or "done"
    log,                    \* history: the external calls made, in order
    nidx,                   \* process_normalization: index into final_files_list
    mp3_files,
    created_normalized_dirs,
    step_ok,                \* history: what the best-effort call of the last step returned (TRUE if it made none)
    source_pictures,        \* copy_artwork: the pictures extract_pictures finds in the source file
    dest_pictures           \* copy_artwork: the pictures stored in the destination file

vars == << files, orig, sepExists, sepStems, pc, missing, demucs_model,
           is_compilation, create_normalized, audio_files, idx, peak_level,
           gain_db, final_files_list, appendedBy, outcome, log, nidx,
           mp3_files, created_normalized_dirs, step_ok, source_pictures,
           dest_pictures >>

fsVars   == << files, orig, sepExists, sepStems >>
cfgVars  == << missing, demucs_model, is_compilation, create_normalized >>
loopVars == << audio_files, idx, peak_level, gain_db, final_files_list, appendedBy, outcome >>
normVars == << nidx, mp3_files, created_normalized_dirs >>
artVars  == << source_pictures, dest_pictures >>

None == << >>
Some(v) == <<v>>

\* ------------------------------------------------------------------ inputs
\* A.flac, A.wav, staging.flac, "A - Drumless.flac", sub/B.flac
WorkFiles ==
    { << <<65,46,102,108,97,99>> >>,
      << <<65,46,119,97,118>> >>,
      << nmStaging >>,
      << <<65>> \o sfxDrumless >>,
      << <<115,117,98>>, <<66,46,102,108,97,99>> >> }

\* a.flac, A.flac, b.WAV, notes.txt, .flac, sub/B.flac, Separated/x.wav,
\* sub/separated/y.flac, Normalised/A.mp3, "sub/normalised old/z.mp3",
\* separated2/w.flac, sub/Normalised/deep/q.flac
DiscFiles ==
    { << <<97,46,102,108,97,99>> >>,
      << <<65,46,102,108,97,99>> >>,
      << <<98,46,87,65,86>> >>,
      << <<110,111,116,101,115,46,116,120,116>> >>,
      << <<46,102,108,97,99>> >>,
      << <<115,117,98>>, <<66,46,102,108,97,99>> >>,
      << <<83,101,112,97,114,97,116,101,100>>, <<120,46,119,97,118>> >>,
      << <<115,117,98>>, nmSeparated, <<121,46,102,108,97,99>> >>,
      << nmNormalised, <<65,46,109,112,51>> >>,
      << <<115,117,98>>, <<110,111,114,109,97,108,105,115,101,100,32,111,108,100>>, <<122,46,109,112,51>> >>,
      << <<115,101,112,97,114,97,116,101,100,50>>, <<119,46,102,108,97,99>> >>,
      << <<115,117,98>>, nmNormalised, <<100,101,101,112>>, <<113,46,102,108,97,99>> >> }

Dependencies == {"ffmpeg", "rsgain", "mutagen", "audio_separator"}

\* what get_model_selection can return: the two presets and a custom name
Models == {"htdemucs_ft.yaml", "BS-Roformer-SW.ckpt", "custom.ckpt"}

\* 0.1 dB, in tenths of a dB
Headroom == 1

PeakRange == (-Headroom - MaxPeakDelta)..(-Headroom + MaxPeakDelta)

\* ------------------------------------------------------------------ main(): setup
InitRest ==
    /\ orig = files
    /\ missing = {}
    /\ demucs_model = ""
    /\ is_compilation = FALSE
    /\ create_normalized = FALSE
    /\ audio_files = << >>
    /\ idx = 1
    /\ peak_level = None
    /\ gain_db = None
    /\ final_files_list = << >>
    /\ appendedBy = << >>
    /\ outcome = << >>
    /\ log = << >>
    /\ nidx = 1
    /\ mp3_files = << >>
    /\ created_normalized_dirs = {}
    /\ step_ok = TRUE

\* the working directory main() starts in: any few files, and possibly a
\* ./separated directory (with or without stems) left by an interrupted run
Init ==
    /\ files \in { S \in SUBSET WorkFiles : Cardinality(S) <= MaxFiles }
    /\ sepExists \in BOOLEAN
    /\ sepStems \in (IF sepExists THEN { {}, {0} } ELSE { {} })
    /\ pc = "start"
    /\ source_pictures = << >>
    /\ dest_pictures = << >>
    /\ InitRest

\* check_dependency x2 and the two module flags; sys.exit(1) on the first one missing
CheckDependencies ==
    /\ pc = "start"
    /\ \E m \in SUBSET Dependencies :
          /\ missing' = m
          /\ pc' = IF m = {} THEN "model" ELSE "exit1"
    /\ UNCHANGED << fsVars, demucs_model, is_compilation, create_normalized,
                    loopVars, log, normVars >>
    /\ step_ok' = TRUE
    /\ UNCHANGED artVars

\* get_model_selection, then Separator(output_dir='./separated') and load_model;
\* whether the constructor creates the output directory is the library's
\* choice.  load_model is called outside any try: when it raises (a custom
\* name the library does not know, a model it cannot fetch) the exception
\* leaves main() and the interpreter ends the process
GetModelSelection ==
    /\ pc = "model"
    /\ \E m \in Models, mk \in BOOLEAN, loaded \in BOOLEAN :
          /\ demucs_model' = m
          /\ sepExists' = (sepExists \/ mk)
          /\ pc' = IF loaded THEN "compilation" ELSE "crash"
    /\ UNCHANGED << files, orig, sepStems, missing, is_compilation,
                    create_normalized, loopVars, log, normVars >>
    /\ step_ok' = TRUE
    /\ UNCHANGED artVars

GetCompilationInput ==
    /\ pc = "compilation"
    /\ \E b \in BOOLEAN : is_compilation' = b
    /\ pc' = "normalization"
    /\ UNCHANGED << fsVars, missing, demucs_model, create_normalized,
                    loopVars, log, normVars >>
    /\ step_ok' = TRUE
    /\ UNCHANGED artVars

GetNormalizationInput ==
    /\ pc = "normalization"
    /\ \E b \in BOOLEAN : create_normalized' = b
    /\ pc' = "discover"
    /\ UNCHANGED << fsVars, missing, demucs_model, is_compilation,
                    loopVars, log, normVars >>
    /\ step_ok' = TRUE
    /\ UNCHANGED artVars

\* audio_files = find_audio_files(".", ...); return when there are none
Discover ==
    /\ pc = "discover"
    /\ audio_files' = find_audio_files(files, SUPPORTED_INPUT_EXTENSIONS)
    /\ outcome' = [i \in 1..Len(audio_files') |-> "pending"]
    /\ pc' = IF audio_files' = << >> THEN "done" ELSE "separate"
    /\ UNCHANGED << fsVars, cfgVars, idx, peak_level, gain_db, final_files_list,
                    appendedBy, log, normVars >>
    /\ step_ok' = TRUE
    /\ UNCHANGED artVars

\* ------------------------------------------------------------------ copy_artwork
\* a picture is one of a few ids; a file holds a list of them
PictureLists == UNION { [1..n -> 1..MaxPics] : n \in 0..MaxPics }

\* copy_artwork(source_file, dest_file), from the list extract_pictures returns
\* and the list stored in dest_file; dest_ok: FLAC(dest_file) and save() raise
\* nothing.  clear_pictures() empties the list of the object in memory; the
\* file changes at save(), which is called only when source_pictures is not empty
copy_artwork(extracted, stored, dest_ok) ==
    IF ~dest_ok THEN [pictures |-> stored, result |-> FALSE]
    ELSE IF extracted # << >> THEN [pictures |-> extracted, result |-> TRUE]
    ELSE [pictures |-> stored, result |-> FALSE]

\* ------------------------------------------------------------------ main(): per-Track loop
\* the Track of the current iteration
file == audio_files[idx]

\* staging_file = os.path.join(file_dir or ".", "staging.flac")
StagingFile(f) == Dirname(f) \o << nmStaging >>

\* output_filename = f"{os.path.splitext(file)[0]} - Drumless.flac"
OutputFilename(f) == Dirname(f) \o << SplitextRoot(Basename(f)) \o sfxDrumless >>

\* where the for loop goes when an iteration ends (continue, or falling off its end)
LoopNext == IF idx < Len(audio_files) THEN "separate" ELSE "album"

\* mutant of RemoveFile: the removal left out
RemoveFileSkipped(S, p) == S

\* if os.path.exists(p): os.remove(p)
RemoveFile(S, p) == S \ {p}

\* the test `if peak_level is None`
PeakMissing(p) == p = None

\* mutant of MergeFailed: the result of merge_audio_files not checked
MergeFailedIgnored(merge_success) == FALSE

\* the test `if not merge_success`
MergeFailed(merge_success) == ~merge_success

\* mutant of RemuxFailed: the result of copy_metadata not checked
RemuxFailedIgnored(metadata_success) == FALSE

\* the test `if not metadata_success`
RemuxFailed(metadata_success) == ~metadata_success

\* mutant of GainFor: the 0.1 dB headroom left out of the gain
GainForNoHeadroom(peak) == IF peak > -Headroom THEN Some(-peak) ELSE None

\* clipping protection: gain_db = -(peak_level + 0.1) if peak_level > -0.1, else None
GainFor(peak) == IF peak > -Headroom THEN Some(-(peak + Headroom)) ELSE None

\* mutant of TrackLoudnessDue: track-mode loudness left to the end of the run
TrackLoudnessSkipped == FALSE

\* the test `if is_compilation` before apply_replaygain_track
TrackLoudnessDue == is_compilation

\* mutant of AlbumLoudnessDue: the result list not tested for emptiness
AlbumLoudnessUnguarded == ~is_compilation

\* the test `if not is_compilation and final_files_list`
AlbumLoudnessDue == ~is_compilation /\ final_files_list # << >>

\* the keys of tags_to_set in the loop, and of tags_to_set after album loudness
TrackTagKeys == {"COMMENT", "DESCRIPTION", "REPLAYGAIN_REFERENCE_LOUDNESS", "REPLAYGAIN_ALGORITHM"}
ReferenceTagKeys == {"REPLAYGAIN_REFERENCE_LOUDNESS", "REPLAYGAIN_ALGORITHM"}

\* mutant of TrackTags: the description names the default model, not the chosen one
TrackTagsDefaultModel(model) ==
    [key \in TrackTagKeys |->
        CASE key = "COMMENT" -> "Drumless (Lossless)"
          [] key = "DESCRIPTION" -> "Stem Separation Model = " \o "BS-Roformer-SW.ckpt"
          [] key = "REPLAYGAIN_REFERENCE_LOUDNESS" -> "-23 LUFS"
          [] key = "REPLAYGAIN_ALGORITHM" -> "ITU-R BS.1770"]

\* tags_to_set of the loop, with the f-string of DESCRIPTION
TrackTags(model) ==
    [key \in TrackTagKeys |->
        CASE key = "COMMENT" -> "Drumless (Lossless)"
          [] key = "DESCRIPTION" -> "Stem Separation Model = " \o model
          [] key = "REPLAYGAIN_REFERENCE_LOUDNESS" -> "-23 LUFS"
          [] key = "REPLAYGAIN_ALGORITHM" -> "ITU-R BS.1770"]

\* tags_to_set after album loudness, and the two TXXX frames of the MP3s
ReferenceTags ==
    [key \in ReferenceTagKeys |->
        CASE key = "REPLAYGAIN_REFERENCE_LOUDNESS" -> "-23 LUFS"
          [] key = "REPLAYGAIN_ALGORITHM" -> "ITU-R BS.1770"]

\* mutant of SkipTrack: a failed stage ends the run
SkipTrackAbort(stage) ==
    /\ sepExists' = FALSE
    /\ sepStems' = {}
    /\ outcome' = [outcome EXCEPT ![idx] = stage]
    /\ idx' = idx + 1
    /\ pc' = "done"
    /\ peak_level' = None
    /\ gain_db' = None

\* mutant of SkipTrack: a failed Track is tried again
SkipTrackRetry(stage) ==
    /\ sepExists' = FALSE
    /\ sepStems' = {}
    /\ outcome' = [outcome EXCEPT ![idx] = stage]
    /\ idx' = idx
    /\ pc' = "separate"
    /\ peak_level' = None
    /\ gain_db' = None

\* an iteration ends in a failed stage: scratch removed, Track recorded, loop continues
SkipTrack(stage) ==
    /\ sepExists' = FALSE
    /\ sepStems' = {}
    /\ outcome' = [outcome EXCEPT ![idx] = stage]
    /\ idx' = idx + 1
    /\ pc' = LoopNext
    /\ peak_level' = None
    /\ gain_db' = None

\* separator.separate(file, output_names); on an exception remove ./separated and continue
Separate ==
    /\ pc = "separate"
    /\ \E success \in BOOLEAN :
          /\ log' = Append(log, <<"separate", file, success>>)
          /\ IF success
             THEN
               /\ sepExists' = TRUE
               /\ sepStems' = sepStems \cup {idx}
               /\ pc' = "peak"
               /\ UNCHANGED << idx, outcome, peak_level, gain_db >>
             ELSE SkipTrack("sep_failed")
    /\ UNCHANGED << files, orig, cfgVars, audio_files, final_files_list,
                    appendedBy, normVars >>
    /\ step_ok' = TRUE
    /\ UNCHANGED artVars

\* what detect_peak_level can return: None without stems, else None or a peak
PeakResults == IF sepStems = {} THEN {None} ELSE {None} \cup { Some(p) : p \in PeakRange }

\* peak_level = detect_peak_level(wav_dir), the None check and the gain policy
DetectPeak ==
    /\ pc = "peak"
    /\ \E p \in PeakResults :
          /\ log' = Append(log, <<"detect_peak", file, p # None>>)
          /\ IF PeakMissing(p)
             THEN SkipTrack("peak_none")
             ELSE
               /\ peak_level' = p
               /\ gain_db' = GainFor(p[1])
               /\ pc' = "merge"
               /\ UNCHANGED << sepExists, sepStems, idx, outcome >>
    /\ UNCHANGED << files, orig, cfgVars, audio_files, final_files_list,
                    appendedBy, normVars >>
    /\ step_ok' = TRUE
    /\ UNCHANGED artVars

\* merge_audio_files(wav_dir, staging_file, gain_db); on failure remove the
\* staging file and ./separated and continue.  ffmpeg writes staging_file
\* (peak_level and gain_db are not read after this call)
Merge ==
    /\ pc = "merge"
    /\ \E merge_success \in BOOLEAN :
          /\ log' = Append(log, <<"merge", file, StagingFile(file), merge_success>>)
          /\ IF MergeFailed(merge_success)
             THEN
               /\ files' = RemoveFile(files, StagingFile(file))
               /\ orig' = orig \ {StagingFile(file)}
               /\ SkipTrack("merge_failed")
             ELSE
               /\ files' = files \cup {StagingFile(file)}
               /\ orig' = orig \ {StagingFile(file)}
               /\ pc' = "remux"
               /\ peak_level' = None
               /\ gain_db' = None
               /\ UNCHANGED << sepExists, sepStems, idx, outcome >>
    /\ UNCHANGED << cfgVars, audio_files, final_files_list, appendedBy, normVars >>
    /\ step_ok' = TRUE
    /\ UNCHANGED artVars

\* copy_metadata(file, staging_file, output_filename, is_compilation): ffmpeg -y
\* writes output_filename (on failure possibly in part); on failure remove the
\* staging file and ./separated and continue
CopyMetadata ==
    /\ pc = "remux"
    /\ \E metadata_success \in BOOLEAN, wrote \in BOOLEAN :
          /\ log' = Append(log, <<"remux", file, OutputFilename(file), metadata_success>>)
          /\ metadata_success => wrote
          /\ LET written == IF wrote THEN {OutputFilename(file)} ELSE {}
             IN IF RemuxFailed(metadata_success)
                THEN /\ files' = RemoveFile(files \cup written, StagingFile(file))
                     /\ orig' = orig \ (written \cup {StagingFile(file)})
                     /\ SkipTrack("remux_failed")
                ELSE /\ files' = files \cup written
                     /\ orig' = orig \ written
                     /\ pc' = "finish"
                     /\ UNCHANGED << sepExists, sepStems, idx, outcome, peak_level, gain_db >>
    /\ UNCHANGED << cfgVars, audio_files, final_files_list, appendedBy, normVars >>
    /\ step_ok' = TRUE
    /\ UNCHANGED artVars

\* mutant of FinishTrack: the compilation prompt is answered anew after each Track
FinishTrackReprompt ==
    /\ pc = "finish"
    /\ log' = IF TrackLoudnessDue
              THEN Append(log, <<"rsgain_track", OutputFilename(file)>>)
              ELSE log
    /\ \E loudness_ok \in BOOLEAN : step_ok' = (TrackLoudnessDue => loudness_ok)
    /\ \E b \in BOOLEAN : is_compilation' = b
    /\ final_files_list' = Append(final_files_list, OutputFilename(file))
    /\ appendedBy' = Append(appendedBy, idx)
    /\ files' = RemoveFile(files, StagingFile(file))
    /\ orig' = orig \ {StagingFile(file)}
    /\ sepExists' = FALSE
    /\ sepStems' = {}
    /\ pc' = "artwork"
    /\ UNCHANGED << missing, demucs_model, create_normalized, audio_files, idx,
                    peak_level, gain_db, outcome, normVars >>
    /\ UNCHANGED artVars

\* after a successful remux: track-mode loudness for a compilation (the result
\* of its run_command is dropped), append to the result list, remove the
\* staging file and ./separated
FinishTrack ==
    /\ pc = "finish"
    /\ log' = IF TrackLoudnessDue
              THEN Append(log, <<"rsgain_track", OutputFilename(file)>>)
              ELSE log
    /\ \E loudness_ok \in BOOLEAN : step_ok' = (TrackLoudnessDue => loudness_ok)
    /\ final_files_list' = Append(final_files_list, OutputFilename(file))
    /\ appendedBy' = Append(appendedBy, idx)
    /\ files' = RemoveFile(files, StagingFile(file))
    /\ orig' = orig \ {StagingFile(file)}
    /\ sepExists' = FALSE
    /\ sepStems' = {}
    /\ pc' = "artwork"
    /\ UNCHANGED << cfgVars, audio_files, idx, peak_level, gain_db, outcome, normVars >>
    /\ UNCHANGED artVars

\* copy_artwork(file, output_filename): best effort, its result is not read;
\* the remux maps the audio stream only, so the output holds no picture yet
CopyArtwork ==
    /\ pc = "artwork"
    /\ log' = Append(log, <<"copy_artwork", OutputFilename(file)>>)
    /\ \E extracted \in PictureLists, dest_ok \in BOOLEAN :
          step_ok' = copy_artwork(extracted, << >>, dest_ok).result
    /\ pc' = "tags"
    /\ UNCHANGED << fsVars, cfgVars, loopVars, normVars >>
    /\ UNCHANGED artVars

\* mutant of SetTrackTags: a Track whose tags cannot be written is dropped
SetTrackTagsFatal ==
    /\ pc = "tags"
    /\ log' = Append(log, <<"set_flac_tags", OutputFilename(file), TrackTagKeys, TrackTags(demucs_model)>>)
    /\ \E tags_ok \in BOOLEAN :
          /\ step_ok' = tags_ok
          /\ final_files_list' = IF tags_ok THEN final_files_list
                                 ELSE SubSeq(final_files_list, 1, Len(final_files_list) - 1)
          /\ appendedBy' = IF tags_ok THEN appendedBy
                           ELSE SubSeq(appendedBy, 1, Len(appendedBy) - 1)
          /\ files' = IF tags_ok THEN files ELSE files \ {OutputFilename(file)}
          /\ outcome' = [outcome EXCEPT ![idx] = IF tags_ok THEN "done" ELSE "remux_failed"]
    /\ idx' = idx + 1
    /\ pc' = LoopNext
    /\ UNCHANGED << orig, sepExists, sepStems, cfgVars, audio_files, peak_level, gain_db,
                    normVars >>
    /\ UNCHANGED artVars

\* set_flac_tags(output_filename, tags_to_set): best effort, its result is not
\* read; the iteration ends
SetTrackTags ==
    /\ pc = "tags"
    /\ log' = Append(log, <<"set_flac_tags", OutputFilename(file), TrackTagKeys, TrackTags(demucs_model)>>)
    /\ \E tags_ok \in BOOLEAN : step_ok' = tags_ok
    /\ outcome' = [outcome EXCEPT ![idx] = "done"]
    /\ idx' = idx + 1
    /\ pc' = LoopNext
    /\ UNCHANGED << fsVars, cfgVars, audio_files, peak_level, gain_db,
                    final_files_list, appendedBy, normVars >>
    /\ UNCHANGED artVars

\* ------------------------------------------------------------------ main(): after the loop
\* mutant of AlbumLoudness: the reference tags written before the loudness call
AlbumLoudnessTagsFirst ==
    /\ pc = "album"
    /\ log' = IF AlbumLoudnessDue
              THEN log
                   \o [i \in 1..Len(final_files_list) |->
                          <<"set_flac_tags", final_files_list[i], ReferenceTagKeys, ReferenceTags>>]
                   \o << <<"rsgain_album", final_files_list>> >>
              ELSE log
    /\ pc' = "cleanup"
    /\ UNCHANGED << fsVars, cfgVars, loopVars, normVars >>
    /\ step_ok' = TRUE
    /\ UNCHANGED artVars

\* apply_replaygain_album(final_files_list), then the two reference tags on each file
AlbumLoudness ==
    /\ pc = "album"
    /\ log' = IF AlbumLoudnessDue
              THEN Append(log, <<"rsgain_album", final_files_list>>)
                   \o [i \in 1..Len(final_files_list) |->
                          <<"set_flac_tags", final_files_list[i], ReferenceTagKeys, ReferenceTags>>]
              ELSE log
    /\ pc' = "cleanup"
    /\ UNCHANGED << fsVars, cfgVars, loopVars, normVars >>
    /\ step_ok' = TRUE
    /\ UNCHANGED artVars

\* mutant of NormalizationDue: the answer to the normalization prompt not read
NormalizationUnasked == final_files_list # << >>

\* the test `if create_normalized and final_files_list`
NormalizationDue == create_normalized /\ final_files_list # << >>

\* if os.path.exists("separated"): shutil.rmtree("separated"); then the
\* test that starts process_normalization
FinalCleanup ==
    /\ pc = "cleanup"
    /\ sepExists' = FALSE
    /\ sepStems' = {}
    /\ pc' = IF NormalizationDue THEN "norm" ELSE "done"
    /\ UNCHANGED << files, orig, cfgVars, loopVars, log, normVars >>
    /\ step_ok' = TRUE
    /\ UNCHANGED artVars

\* ------------------------------------------------------------------ process_normalization
\* normalized_dir = os.path.join(os.path.dirname(flac_file) or ".", "Normalised")
NormalizedDir(flac_file) == Dirname(flac_file) \o << nmNormalised >>

\* mp3_filename = os.path.join(normalized_dir, f"{filename_no_ext}.mp3")
Mp3Filename(flac_file) ==
    NormalizedDir(flac_file) \o << SplitextRoot(Basename(flac_file)) \o extMp3 >>

\* mutant of Mp3Kept: an MP3 whose metadata copy failed is left out
Mp3KeptWithMetadata(success, metadata_success) == success /\ metadata_success

\* mp3_files.append(mp3_filename) is reached unless `if not success: continue`
\* was taken; metadata_success is only reported
Mp3Kept(success, metadata_success) == success

\* one iteration of the loop over final_files_list; normalize_and_convert_to_mp3
\* is detect_file_peak_level, then ffmpeg -y unless the peak is None
NormalizeFile ==
    /\ pc = "norm"
    /\ LET flac_file == final_files_list[nidx]
           mp3 == Mp3Filename(flac_file)
       IN IF flac_file \notin files
          THEN UNCHANGED << files, orig, log, mp3_files, created_normalized_dirs >>
          ELSE /\ created_normalized_dirs' = created_normalized_dirs \cup {NormalizedDir(flac_file)}
               /\ \E peak_found \in BOOLEAN, success \in BOOLEAN,
                     wrote \in BOOLEAN, metadata_success \in BOOLEAN :
                     /\ success => (peak_found /\ wrote)
                     /\ wrote => peak_found
                     /\ ~success => metadata_success
                     /\ files' = IF wrote THEN files \cup {mp3} ELSE files
                     /\ orig' = IF wrote THEN orig \ {mp3} ELSE orig
                     /\ mp3_files' = IF Mp3Kept(success, metadata_success)
                                     THEN Append(mp3_files, mp3) ELSE mp3_files
                     /\ log' = log \o << <<"detect_file_peak", flac_file, peak_found>> >>
                               \o (IF peak_found
                                   THEN << <<"transcode", flac_file, mp3, success>> >>
                                   ELSE << >>)
                               \o (IF success
                                   THEN << <<"copy_metadata_flac_to_mp3", flac_file, mp3, metadata_success>> >>
                                   ELSE << >>)
    /\ nidx' = nidx + 1
    /\ pc' = IF nidx < Len(final_files_list) THEN "norm" ELSE "normgain"
    /\ UNCHANGED << sepExists, sepStems, cfgVars, loopVars >>
    /\ step_ok' = TRUE
    /\ UNCHANGED artVars

\* ReplayGain on the MP3s (track mode each for a compilation, else album
\* mode once), then the two reference tags on each of them
NormalizeLoudness ==
    /\ pc = "normgain"
    /\ log' = IF mp3_files = << >> THEN log
              ELSE log
                   \o (IF is_compilation
                       THEN [i \in 1..Len(mp3_files) |-> <<"rsgain_track", mp3_files[i]>>]
                       ELSE << <<"rsgain_album", mp3_files>> >>)
                   \o [i \in 1..Len(mp3_files) |->
                          <<"mp3_reference_tags", mp3_files[i], ReferenceTagKeys, ReferenceTags>>]
    /\ pc' = "done"
    /\ UNCHANGED << fsVars, cfgVars, loopVars, normVars >>
    /\ step_ok' = TRUE
    /\ UNCHANGED artVars

\* ------------------------------------------------------------------ specifications
Next ==
    \/ CheckDependencies
    \/ GetModelSelection
    \/ GetCompilationInput
    \/ GetNormalizationInput
    \/ Discover
    \/ Separate
    \/ DetectPeak
    \/ Merge
    \/ CopyMetadata
    \/ FinishTrack
    \/ CopyArtwork
    \/ SetTrackTags
    \/ AlbumLoudness
    \/ FinalCleanup
    \/ NormalizeFile
    \/ NormalizeLoudness

\* a run of main()
Spec == Init /\ [][Next]_vars

\* the steps of the loop over the Tracks and of everything after it
Pipeline ==
    \/ Separate
    \/ DetectPeak
    \/ Merge
    \/ CopyMetadata
    \/ FinishTrack
    \/ CopyArtwork
    \/ SetTrackTags
    \/ AlbumLoudness
    \/ FinalCleanup
    \/ NormalizeFile
    \/ NormalizeLoudness

\* a run of main() in which every external call of the pipeline returns: the
\* program is sequential, so once the loop is entered each possible step is taken
FairSpec == Init /\ [][Next]_vars /\ WF_vars(Pipeline)

\* discovery alone, over trees with the generated folders at several depths
InitDiscovery ==
    /\ files \in { S \in SUBSET DiscFiles : Cardinality(S) <= MaxDiscFiles }
    /\ sepExists = FALSE
    /\ sepStems = {}
    /\ pc = "discover"
    /\ source_pictures = << >>
    /\ dest_pictures = << >>
    /\ InitRest

NextDiscovery == Discover

SpecDiscovery == InitDiscovery /\ [][NextDiscovery]_vars

\* copy_artwork alone, for any pictures in the source and in the destination
InitArtwork ==
    /\ files = {}
    /\ sepExists = FALSE
    /\ sepStems = {}
    /\ pc = "artwork_call"
    /\ source_pictures \in PictureLists
    /\ dest_pictures \in PictureLists
    /\ InitRest

\* one call of copy_artwork: it returns a result, or catches an exception of
\* FLAC(dest_file) or save() and returns False
CopyArtworkCall ==
    /\ pc = "artwork_call"
    /\ \E dest_ok \in BOOLEAN :
          LET r == copy_artwork(source_pictures, dest_pictures, dest_ok)
          IN /\ dest_pictures' = r.pictures
             /\ step_ok' = r.result
             /\ pc' = IF dest_ok THEN "artwork_returned" ELSE "artwork_raised"
    /\ UNCHANGED << fsVars, cfgVars, loopVars, log, normVars, source_pictures >>

NextArtwork == CopyArtworkCall

SpecArtwork == InitArtwork /\ [][NextArtwork]_vars

\* ------------------------------------------------------------------ vocabulary of the properties
Tracks == { audio_files[i] : i \in DOMAIN audio_files }

FinalOutputs == { final_files_list[i] : i \in DOMAIN final_files_list }

LoopPcs == {"separate", "peak", "merge", "remux", "finish", "artwork", "tags"}

PostLoopPcs == {"album", "cleanup", "norm", "normgain", "done"}

\* the positions in the log of the calls of one operation
Called(op) == { k \in DOMAIN log : log[k][1] = op }

\* operation op was called for Track file f and returned success
Returned(op, f) ==
    \E k \in Called(op) : log[k][2] = f /\ log[k][Len(log[k])] = TRUE

\* how often the separation model was invoked for Track i
SepCount(i) == Cardinality({ k \in Called("separate") : log[k][2] = audio_files[i] })

\* Track i has an entry in the result list
Appended(i) == \E k \in DOMAIN appendedBy : appendedBy[k] = i

FailedStages == {"sep_failed", "peak_none", "merge_failed", "remux_failed"}

\* the album-mode loudness calls that are not the one of process_normalization
\* on its MP3 list: those with an empty argument or one naming a Final Output
FinalAlbumCalls ==
    { k \in Called("rsgain_album") :
         \/ log[k][2] = << >>
         \/ \E j \in DOMAIN log[k][2] : log[k][2][j] \in FinalOutputs }

\* ------------------------------------------------------------------ C1
\* C1: when main() has completed, ./separated does not exist and no
\* staging.flac exists in the directory of any processed Track.
C1_ScratchGoneAtCompletion ==
    pc = "done" =>
        /\ ~sepExists
        /\ \A t \in Tracks : StagingFile(t) \notin files

C3_AppendedIffMergeAndRemuxOk ==
    /\ Len(appendedBy) = Len(final_files_list)
    /\ \A k \in DOMAIN appendedBy :
          /\ appendedBy[k] \in DOMAIN audio_files
          /\ final_files_list[k] = OutputFilename(audio_files[appendedBy[k]])
          /\ \A m \in DOMAIN appendedBy : appendedBy[m] = appendedBy[k] => m = k
    /\ \A i \in DOMAIN audio_files :
          LET both == /\ Returned("merge", audio_files[i])
                      /\ Returned("remux", audio_files[i])
          IN /\ Appended(i) => both
             /\ (i < idx \/ pc \in {"artwork", "tags"}) => (both => Appended(i))

\* the run is over, one Track failed at remux after a successful merge and
\* another is in the result list
C3_Witness ==
    /\ pc = "done"
    /\ \E i, j \in DOMAIN audio_files :
          /\ outcome[i] = "remux_failed"
          /\ Returned("merge", audio_files[i])
          /\ Appended(j)

\* ------------------------------------------------------------------ C4
\* C4: a failed stage of one Track never aborts the run: once the loop is
\* entered the run completes; the loop is left only when every Track has been
\* attempted exactly once and has ended Done or in a failed stage; and a
\* completed run has been through the post-loop steps (album loudness where
\* it is due, end-of-run cleanup).
C4_FailureNeverAborts ==
    /\ [](pc \in PostLoopPcs =>
            \A i \in DOMAIN audio_files :
                /\ outcome[i] \in FailedStages \cup {"done"}
                /\ SepCount(i) = 1)
    /\ []((pc = "done" /\ audio_files # << >>) =>
            /\ ~sepExists
            /\ AlbumLoudnessDue => FinalAlbumCalls # {})
    /\ (pc = "separate") ~> (pc = "done")

\* the run is over; a Track failed, and a later Track was processed to the end
C4_Witness ==
    /\ pc = "done"
    /\ \E i, j \in DOMAIN outcome :
          /\ i < j
          /\ outcome[i] \in FailedStages
          /\ outcome[j] = "done"

\* ------------------------------------------------------------------ C5
\* C5: no pipeline step deletes or overwrites a discovered Track: every Track
\* is on disk with its initial contents throughout the run.
C5_TracksReadOnly ==
    \A t \in Tracks : t \in files /\ t \in orig

\* ------------------------------------------------------------------ C6
\* C6: when merge is called, in tenths of a dB: a peak above -0.1 dB comes
\* with gain_db = -(peak + 0.1), so that peak + gain_db = -0.1; a peak at or
\* below -0.1 dB comes with gain_db = None; either way the peak plus the
\* applied gain is at most -0.1 dB.
C6_GainPolicy ==
    pc = "merge" =>
        /\ peak_level # None
        /\ LET peak == peak_level[1]
               applied == IF gain_db = None THEN 0 ELSE gain_db[1]
           IN /\ peak > -1 => (gain_db # None /\ peak + gain_db[1] = -1)
              /\ peak <= -1 => gain_db = None
              /\ peak + applied <= -1

\* merge is about to be called for a mix that peaks above -0.1 dB
C6_Witness ==
    /\ pc = "merge"
    /\ peak_level # None
    /\ peak_level[1] > -1
    /\ gain_db # None

\* ------------------------------------------------------------------ C7
\* C7: in a compilation run every successful remux is followed at once, before
\* any other call and so before the next Track's separation, by track-mode
\* loudness on that Final Output; track-mode loudness touches a Final Output
\* nowhere else, and album-mode loudness is never invoked on Final Outputs.
C7_TrackLoudnessRightAfterRemux ==
    is_compilation =>
        /\ \A k \in Called("remux") :
              log[k][4] =>
                 IF k = Len(log) THEN pc = "finish"
                 ELSE log[k + 1] = <<"rsgain_track", log[k][3]>>
        /\ \A k \in Called("rsgain_track") :
              log[k][2] \in FinalOutputs \cup { OutputFilename(t) : t \in Tracks } =>
                 /\ k > 1
                 /\ log[k - 1] = <<"remux", log[k - 1][2], log[k][2], TRUE>>
        /\ \A k \in Called("rsgain_album") :
              /\ log[k][2] # final_files_list
              /\ \A j \in DOMAIN log[k][2] : log[k][2][j] \notin FinalOutputs

\* a compilation run is over with two Final Outputs in the result list
C7_Witness ==
    /\ is_compilation
    /\ pc = "done"
    /\ Len(final_files_list) = 2
    /\ Cardinality(Called("rsgain_track")) >= 2

\* ------------------------------------------------------------------ C8
\* C8 as stated: in every non-compilation run album-mode loudness is invoked
\* exactly once, with the whole result list, after the last Track's iteration,
\* and track-mode loudness is never invoked on a Final Output.
C8_AlbumLoudnessExactlyOnce ==
    (pc = "done" /\ missing = {} /\ ~is_compilation) =>
        /\ Cardinality(Called("rsgain_album")) = 1
        /\ \A k \in Called("rsgain_album") : log[k][2] = final_files_list
        /\ \A k \in Called("rsgain_track") : log[k][2] \notin FinalOutputs

\* C8 as amended: in a non-compilation run album-mode loudness is invoked on
\* the Final Outputs exactly once if the result list is not empty and not at
\* all if it is empty; that invocation comes after every Track's iteration and
\* is given exactly the whole result list; track-mode loudness is never invoked
\* on a Final Output.  The only other album-mode invocation is the one of the
\* normalization sub-pipeline, on its MP3 list.
C8_AlbumLoudnessOnceIfAnyOutput ==
    ~is_compilation =>
        /\ pc \in LoopPcs \cup {"album"} => Called("rsgain_album") = {}
        /\ pc \in PostLoopPcs \ {"album"} =>
              Cardinality(FinalAlbumCalls) = (IF final_files_list = << >> THEN 0 ELSE 1)
        /\ \A k \in FinalAlbumCalls :
              /\ log[k][2] = final_files_list
              /\ \A i \in DOMAIN audio_files : outcome[i] # "pending"
              /\ \A m \in Called("separate") : m < k
        /\ \A k \in Called("rsgain_album") \ FinalAlbumCalls :
              /\ log[k][2] = mp3_files
              /\ pc = "done"
              /\ k > Len(log) - Len(mp3_files) - 1
        /\ \A k \in Called("rsgain_track") : log[k][2] \notin FinalOutputs

\* a non-compilation run is over, with two Final Outputs and album-mode
\* loudness invoked on them
C8_Witness ==
    /\ ~is_compilation
    /\ pc = "done"
    /\ Len(final_files_list) = 2
    /\ FinalAlbumCalls # {}

\* ------------------------------------------------------------------ C9
\* C9: the separation model is invoked only for discovered Tracks, at most once
\* for each at any time, and exactly once for each Track whose iteration has
\* begun; when the loop is over that is every Track.
C9_SeparationOncePerTrack ==
    /\ \A k \in Called("separate") : log[k][2] \in Tracks
    /\ Cardinality(Tracks) = Len(audio_files)
    /\ \A i \in DOMAIN audio_files :
          /\ SepCount(i) <= 1
          /\ (i < idx \/ (i = idx /\ pc \in LoopPcs \ {"separate"})) => SepCount(i) = 1
          /\ (i > idx \/ (i = idx /\ pc = "separate")) => SepCount(i) = 0
    /\ (pc \in PostLoopPcs /\ audio_files # << >>) => idx = Len(audio_files) + 1

\* the run is over; of two Tracks one failed at separation
C9_Witness ==
    /\ pc = "done"
    /\ Len(audio_files) = 2
    /\ \E i \in DOMAIN outcome : outcome[i] = "sep_failed"
    /\ \A i \in DOMAIN audio_files : SepCount(i) = 1

\* ------------------------------------------------------------------ C10
\* a directory name the tool generates: "separated" in any case, or a name
\* whose lower-cased form starts with "normalised"
IsGeneratedDir(d) ==
    \/ Lower(d) = <<115,101,112,97,114,97,116,101,100>>
    \/ /\ Len(d) >= 10
       /\ Lower(SubSeq(d, 1, 10)) = <<110,111,114,109,97,108,105,115,101,100>>

\* the files discovery has to return
Discoverable ==
    { p \in files :
         /\ HasSupportedExt(Basename(p), SUPPORTED_INPUT_EXTENSIONS)
         /\ \A k \in 1..(Len(p) - 1) : ~IsGeneratedDir(p[k]) }

\* C10: find_audio_files returns exactly the files with a supported extension
\* (case-insensitively) that have no ancestor directory named "separated" (any
\* case) or starting, lower-cased, with "normalised", at any depth; each once,
\* ordered by lower-cased relative path.
C10_DiscoveryExact ==
    pc # "discover" =>
        /\ Tracks = Discoverable
        /\ Len(audio_files) = Cardinality(Discoverable)
        /\ \A i, j \in DOMAIN audio_files :
              i < j => StrLeq(SortKey(audio_files[i]), SortKey(audio_files[j]))

\* discovery has returned two or more Tracks from a tree that also holds an
\* audio file below a generated folder that is not at the top
C10_Witness ==
    /\ pc # "discover"
    /\ Len(audio_files) >= 2
    /\ \E p \in files :
          /\ HasSupportedExt(Basename(p), SUPPORTED_INPUT_EXTENSIONS)
          /\ \E k \in 2..(Len(p) - 1) : IsGeneratedDir(p[k])

\* ------------------------------------------------------------------ C11
\* the process has ended: by sys.exit(1), by an exception that left main(),
\* or because main() returned
Terminated == pc \in {"exit1", "crash", "done"}

\* the exit status of the process: 1 from sys.exit(1) and from an uncaught
\* exception, 0 when main() returns
ExitStatus == IF pc \in {"exit1", "crash"} THEN 1 ELSE 0

\* C11: the exit status is 1 exactly when a required tool or library is
\* missing and 0 in every other run; when a dependency is missing the process
\* ends before any prompt is answered, any call is made or any file changes.
C11_ExitOneIffDependencyMissing ==
    /\ Terminated => (ExitStatus = 1 <=> missing # {})
    /\ missing # {} =>
          /\ pc = "exit1"
          /\ demucs_model = ""
          /\ audio_files = << >>
          /\ log = << >>
          /\ files = orig

\* ------------------------------------------------------------------ C12
\* what find_audio_files returns when the program is started again on the
\* tree as it is now
Rediscovered == find_audio_files(files, SUPPORTED_INPUT_EXTENSIONS)

\* C12: on the folder a completed run leaves behind, discovery selects no
\* file that lies inside a Normalised folder (so none of the MP3s of the
\* run), and it selects every Final Output of the run.
C12_SecondRunDiscovery ==
    pc = "done" =>
        LET selected == { Rediscovered[i] : i \in DOMAIN Rediscovered }
        IN /\ \A p \in selected : \A k \in 1..(Len(p) - 1) : p[k] # nmNormalised
           /\ \A i \in DOMAIN mp3_files : mp3_files[i] \notin selected
           /\ \A f \in FinalOutputs : f \in files /\ f \in selected

\* a run is over that left Final Outputs and their MP3s in two directories,
\* each with its Normalised folder
C12_Witness ==
    /\ pc = "done"
    /\ Cardinality(created_normalized_dirs) = 2
    /\ Len(mp3_files) = 2
    /\ \A i \in DOMAIN mp3_files : mp3_files[i] \in files
    /\ \A f \in FinalOutputs :
          \E i \in DOMAIN Rediscovered : Rediscovered[i] = f

\* ------------------------------------------------------------------ C13
\* the four stages whose failure ends a Track's iteration
FatalStages == {"separate", "detect_peak", "merge", "remux"}

\* the calls made for one Track after its separation
LaterStages == {"detect_peak", "merge", "remux", "copy_artwork"}

\* entry k of the log is a per-Track call that is not a separation: a later
\* stage, track-mode loudness on a Track's output, or the stamping of the
\* four tags
IsLaterStage(k) ==
    \/ log[k][1] \in LaterStages
    \/ log[k][1] = "rsgain_track" /\ log[k][2] \in { OutputFilename(t) : t \in Tracks }
    \/ log[k][1] = "set_flac_tags" /\ log[k][3] = TrackTagKeys

\* C13: the calls made for a Track come in the order separation, mix-peak
\* detection, merge, remux, track loudness (compilation only), artwork copy,
\* tag stamping, each straight after the one before it: a stage is called
\* only when the stage before it was called for the same Track and succeeded,
\* a stage that succeeded is followed by the next one, and after a stage that
\* failed no further stage is called for that Track.
C13_StagesInOrder ==
    \A k \in DOMAIN log :
       LET e == log[k]
       IN /\ e[1] = "detect_peak" =>
                k > 1 /\ log[k - 1][1] = "separate"
                      /\ log[k - 1][2] = e[2] /\ log[k - 1][3]
          /\ e[1] = "merge" =>
                k > 1 /\ log[k - 1][1] = "detect_peak"
                      /\ log[k - 1][2] = e[2] /\ log[k - 1][3]
          /\ e[1] = "remux" =>
                k > 1 /\ log[k - 1][1] = "merge"
                      /\ log[k - 1][2] = e[2] /\ log[k - 1][4]
                      /\ e[3] = OutputFilename(e[2])
          /\ (e[1] = "rsgain_track" /\ IsLaterStage(k)) =>
                /\ is_compilation
                /\ k > 1 /\ log[k - 1][1] = "remux"
                         /\ log[k - 1][3] = e[2] /\ log[k - 1][4]
          /\ e[1] = "copy_artwork" =>
                /\ k > 1
                /\ log[k - 1][1] = (IF is_compilation THEN "rsgain_track" ELSE "remux")
                /\ log[k - 1][2 + (IF is_compilation THEN 0 ELSE 1)] = e[2]
                /\ ~is_compilation => log[k - 1][4]
          /\ (e[1] = "set_flac_tags" /\ IsLaterStage(k)) =>
                k > 1 /\ log[k - 1] = <<"copy_artwork", e[2]>>
          /\ (e[1] \in FatalStages /\ e[Len(e)]) =>
                IF k = Len(log)
                THEN pc \in (CASE e[1] = "separate" -> {"peak"}
                               [] e[1] = "detect_peak" -> {"merge"}
                               [] e[1] = "merge" -> {"remux"}
                               [] e[1] = "remux" ->
                                    IF is_compilation THEN {"finish"}
                                    ELSE {"finish", "artwork"})
                ELSE IsLaterStage(k + 1)
          /\ (e[1] \in FatalStages /\ ~e[Len(e)]) =>
                IF k = Len(log)
                THEN pc \notin LoopPcs \ {"separate"}
                ELSE /\ ~IsLaterStage(k + 1)
                     /\ log[k + 1][1] = "separate" => log[k + 1][2] # e[2]

\* a compilation run is over; one Track went through every stage and another
\* failed at merge
C13_Witness ==
    /\ pc = "done"
    /\ is_compilation
    /\ \E i, j \in DOMAIN outcome :
          /\ outcome[i] = "done"
          /\ outcome[j] = "merge_failed"

\* ------------------------------------------------------------------ C14
\* C14: whenever the separation model is about to be invoked for a Track,
\* ./separated holds no stem, and while the Track's peak is detected and its
\* stems are merged it holds the stems of that Track only.
C14_TrackStartsWithEmptyScratch ==
    /\ pc = "separate" => sepStems = {}
    /\ pc \in {"peak", "merge"} => sepStems = {idx}

\* ------------------------------------------------------------------ C15
\* the loudness-tool calls that touch file f: track mode on f, album mode on
\* a list that holds f
LoudnessOn(f) ==
    { k \in DOMAIN log :
         \/ log[k][1] = "rsgain_track" /\ log[k][2] = f
         \/ /\ log[k][1] = "rsgain_album"
            /\ \E j \in DOMAIN log[k][2] : log[k][2][j] = f }

\* the calls that write the two reference tags to file f
ReferenceTagsOn(f) ==
    { k \in DOMAIN log :
         /\ log[k][1] \in {"set_flac_tags", "mp3_reference_tags"}
         /\ log[k][2] = f
         /\ ReferenceTagKeys \subseteq log[k][3] }

\* the two reference tags are written to f after every loudness call on f
TaggedAfterLoudness(f) ==
    LoudnessOn(f) # {} =>
        \E t \in ReferenceTagsOn(f) : \A l \in LoudnessOn(f) : l < t

\* C15: between the iterations of the loop and from the end of the album
\* step on, every file of the result list has had its two reference tags
\* written after the last loudness call that touched it; when the run is over
\* so has every MP3 of the normalization list; in either mode.
C15_ReferenceTagsAfterLoudness ==
    /\ pc \in {"separate", "album", "cleanup", "norm", "normgain", "done"} =>
          \A f \in FinalOutputs : TaggedAfterLoudness(f)
    /\ pc \in {"cleanup", "norm", "normgain", "done"} =>
          \A f \in FinalOutputs : LoudnessOn(f) # {}
    /\ pc = "done" =>
          \A i \in DOMAIN mp3_files :
              /\ LoudnessOn(mp3_files[i]) # {}
              /\ TaggedAfterLoudness(mp3_files[i])

\* a non-compilation run is over: album-mode loudness has touched two Final
\* Outputs and, in the normalization, their MP3s
C15_Witness ==
    /\ pc = "done"
    /\ ~is_compilation
    /\ Len(final_files_list) = 2
    /\ Len(mp3_files) = 2
    /\ Cardinality(Called("rsgain_album")) = 2

\* ------------------------------------------------------------------ C16
\* C16: no step removes an entry from the result list or deletes a file that
\* is in it; and when track-mode loudness, copy_artwork or the stamping of a
\* Track's tags fails, the Track's Final Output is in the result list and on
\* disk after the step, and the run goes on to the step that follows a
\* success: the artwork copy, the tag stamping, the next Track or the
\* post-loop steps.
C16_BestEffortNeverUndoes ==
    [][ /\ Len(final_files_list') >= Len(final_files_list)
        /\ SubSeq(final_files_list', 1, Len(final_files_list)) = final_files_list
        /\ \A f \in FinalOutputs : f \in files => f \in files'
        /\ (pc \in {"finish", "artwork", "tags"} /\ ~step_ok') =>
              /\ \E k \in DOMAIN final_files_list' :
                    final_files_list'[k] = OutputFilename(file)
              /\ \E k \in DOMAIN appendedBy' : appendedBy'[k] = idx
              /\ OutputFilename(file) \in files'
              /\ pc' = (CASE pc = "finish" -> "artwork"
                          [] pc = "artwork" -> "tags"
                          [] pc = "tags" -> LoopNext)
              /\ pc = "tags" => (outcome'[idx] = "done" /\ idx' = idx + 1) ]_vars

\* the stamping of the first Track's tags has failed; the Track is in the
\* result list, its Final Output on disk, and the second Track is next
C16_Witness ==
    /\ pc = "separate"
    /\ idx = 2
    /\ ~step_ok
    /\ Appended(1)
    /\ OutputFilename(audio_files[1]) \in files

\* ------------------------------------------------------------------ C17
RECURSIVE TranscodedOk(_)
\* the MP3 paths of the transcodings that succeeded among the first k calls,
\* in the order of the calls
TranscodedOk(k) ==
    IF k = 0 THEN << >>
    ELSE IF log[k][1] = "transcode" /\ log[k][4]
         THEN Append(TranscodedOk(k - 1), log[k][3])
         ELSE TranscodedOk(k - 1)

RECURSIVE Attempted(_)
\* the files whose peak normalize_and_convert_to_mp3 set out to detect among
\* the first k calls, in the order of the calls
Attempted(k) ==
    IF k = 0 THEN << >>
    ELSE IF log[k][1] = "detect_file_peak"
         THEN Append(Attempted(k - 1), log[k][2])
         ELSE Attempted(k - 1)

\* C17: mp3_files holds exactly the MP3 paths whose transcoding succeeded, in
\* order; a transcoding is only run for a source that exists and whose peak
\* was detected; the MP3 of every metadata copy, failed or not, is in the
\* list; and every file of the result list is attempted, whatever happened to
\* the files before it.
C17_Mp3ListExact ==
    /\ mp3_files = TranscodedOk(Len(log))
    /\ \A k \in Called("transcode") :
          /\ k > 1
          /\ log[k - 1] = <<"detect_file_peak", log[k][2], TRUE>>
          /\ log[k][2] \in files
          /\ log[k][3] = Mp3Filename(log[k][2])
    /\ \A k \in Called("copy_metadata_flac_to_mp3") :
          /\ log[k - 1] = <<"transcode", log[k][2], log[k][3], TRUE>>
          /\ \E j \in DOMAIN mp3_files : mp3_files[j] = log[k][3]
    /\ pc = "norm" => Attempted(Len(log)) = SubSeq(final_files_list, 1, nidx - 1)
    /\ (pc \in {"normgain", "done"} /\ nidx > 1) =>
          Attempted(Len(log)) = final_files_list

\* the normalization is over: the first file failed at peak detection or at
\* transcoding, the second was transcoded, its metadata copy failed, and it
\* is the one MP3 of the list
C17_Witness ==
    /\ pc = "done"
    /\ Len(final_files_list) = 2
    /\ Len(mp3_files) = 1
    /\ \E k \in Called("copy_metadata_flac_to_mp3") :
          /\ ~log[k][4]
          /\ log[k][3] = mp3_files[1]
          /\ \E m \in 1..(k - 1) :
                /\ log[m][1] \in {"detect_file_peak", "transcode"}
                /\ ~log[m][Len(log[m])]

\* ------------------------------------------------------------------ C18
\* C18: when copy_artwork has returned without an exception of the
\* destination: if the source yielded no picture the destination holds none
\* and the result is failure; if the source yielded pictures the destination
\* holds exactly those, and none of its earlier ones.
C18_ArtworkReplaced ==
    pc = "artwork_returned" =>
        /\ source_pictures = << >> => (dest_pictures = << >> /\ ~step_ok)
        /\ source_pictures # << >> => (dest_pictures = source_pictures /\ step_ok)

\* ------------------------------------------------------------------ C19
\* the calls of the loop over the Tracks and of the album step
LoopCalls == {"separate", "detect_peak", "merge", "remux", "copy_artwork", "set_flac_tags"}

\* process_normalization has been entered
NormalizationRan == nidx > 1 \/ pc \in {"norm", "normgain"}

\* what holds of the run when process_normalization starts and from then on:
\* every Track's iteration is over, album-mode loudness has been applied
\* where it is due, ./separated is gone
NormalizationComesLast ==
    /\ \A i \in DOMAIN audio_files : outcome[i] \in FailedStages \cup {"done"}
    /\ idx = Len(audio_files) + 1
    /\ AlbumLoudnessDue => FinalAlbumCalls # {}
    /\ ~sepExists
    /\ \A k \in Called("detect_file_peak") :
          \A m \in DOMAIN log :
              (\/ log[m][1] \in LoopCalls
               \/ log[m][1] = "rsgain_track" /\ log[m][2] \in FinalOutputs
               \/ m \in FinalAlbumCalls) => m < k

\* C19 as stated: the normalization sub-pipeline runs if and only if
\* normalization was requested, only after every iteration, the album step and
\* the end-of-run cleanup, and over the full result list.
C19_NormalizationIffRequested ==
    /\ NormalizationRan => (create_normalized /\ NormalizationComesLast)
    /\ pc = "done" =>
          /\ NormalizationRan <=> create_normalized
          /\ NormalizationRan => nidx = Len(final_files_list) + 1

\* C19 as amended: the normalization sub-pipeline runs if and only if
\* normalization was requested and the result list is not empty (a run
\* without a Final Output skips it even when it was requested); it starts
\* only after every Track's iteration, the post-loop album step and the
\* end-of-run cleanup, and its loop goes over the full result list.
C19_NormalizationIffRequestedAndOutput ==
    /\ NormalizationRan =>
          /\ create_normalized
          /\ final_files_list # << >>
          /\ NormalizationComesLast
    /\ pc = "done" =>
          /\ NormalizationRan <=> (create_normalized /\ final_files_list # << >>)
          /\ NormalizationRan =>
                /\ nidx = Len(final_files_list) + 1
                /\ Attempted(Len(log)) = final_files_list

\* a non-compilation run with normalization requested is over: two Tracks
\* are in the result list and process_normalization went over both
C19_Witness ==
    /\ pc = "done"
    /\ create_normalized
    /\ ~is_compilation
    /\ Len(final_files_list) = 2
    /\ nidx = 3
    /\ Called("detect_file_peak") # {}

\* ------------------------------------------------------------------ C20
\* C20: the result list never holds the same path twice, and no remux writes
\* to the path of a Final Output that an earlier remux of the run produced.
C20_DistinctFinalOutputs ==
    /\ \A k, m \in DOMAIN final_files_list :
          k # m => final_files_list[k] # final_files_list[m]
    /\ \A k, m \in Called("remux") :
          (k < m /\ log[k][4]) => log[m][3] # log[k][3]

\* ------------------------------------------------------------------ C21
\* the tag-stamping calls of the loop: the set_flac_tags calls that come
\* straight after a copy_artwork call
TrackStamps ==
    { k \in Called("set_flac_tags") : k > 1 /\ log[k - 1][1] = "copy_artwork" }

\* C21: the tag stamping of a Track comes straight after the artwork copy on
\* the same Final Output, which comes after the Track's successful remux (and
\* its track loudness); no call follows it in the iteration: the next call,
\* if any, is the next Track's separation or a post-loop step; every artwork
\* copy is followed by it; and it writes exactly the four keys COMMENT =
\* 'Drumless (Lossless)', DESCRIPTION = 'Stem Separation Model = ' followed by
\* the model chosen at the prompt, REPLAYGAIN_REFERENCE_LOUDNESS = '-23 LUFS',
\* REPLAYGAIN_ALGORITHM = 'ITU-R BS.1770'.
C21_TrackTagsLastAndExact ==
    /\ \A k \in TrackStamps :
          LET tags == log[k][4]
          IN /\ DOMAIN tags = {"COMMENT", "DESCRIPTION",
                               "REPLAYGAIN_REFERENCE_LOUDNESS", "REPLAYGAIN_ALGORITHM"}
             /\ tags["COMMENT"] = "Drumless (Lossless)"
             /\ tags["DESCRIPTION"] = "Stem Separation Model = " \o demucs_model
             /\ tags["REPLAYGAIN_REFERENCE_LOUDNESS"] = "-23 LUFS"
             /\ tags["REPLAYGAIN_ALGORITHM"] = "ITU-R BS.1770"
             /\ log[k - 1] = <<"copy_artwork", log[k][2]>>
             /\ LET r == IF is_compilation THEN k - 3 ELSE k - 2
                IN /\ r >= 1
                   /\ log[r][1] = "remux"
                   /\ log[r][3] = log[k][2]
                   /\ log[r][4]
                   /\ is_compilation => log[k - 2] = <<"rsgain_track", log[k][2]>>
             /\ IF k = Len(log)
                THEN pc \in {"separate"} \cup PostLoopPcs
                ELSE log[k + 1][1] \in {"separate", "rsgain_album", "detect_file_peak"}
    /\ \A c \in Called("copy_artwork") :
          IF c = Len(log) THEN pc = "tags" ELSE c + 1 \in TrackStamps
    /\ \A i \in DOMAIN outcome :
          outcome[i] = "done" =>
              \E k \in TrackStamps : log[k][2] = OutputFilename(audio_files[i])

\* a compilation run with a custom model is over and the tags of two Tracks
\* were stamped
C21_Witness ==
    /\ pc = "done"
    /\ is_compilation
    /\ demucs_model = "custom.ckpt"
    /\ Cardinality(TrackStamps) = 2

\* ------------------------------------------------------------------ C22
\* the positions of main() before the loop over the Tracks
SetupPcs == {"start", "model", "compilation", "normalization", "discover"}

\* C22: the model, the compilation flag, the normalization flag and the
\* Track list are each set at one place of main(), which is passed once and
\* before the first separation call; no step of the loop or after it changes
\* any of them; so the track-mode loudness calls on Final Outputs, the
\* DESCRIPTION tags and the start of the normalization all agree with the one
\* configuration of the run.
C22_ConfigurationFixed ==
    /\ [][ /\ demucs_model' # demucs_model => pc = "model"
           /\ is_compilation' # is_compilation => pc = "compilation"
           /\ create_normalized' # create_normalized => pc = "normalization"
           /\ audio_files' # audio_files => pc = "discover"
           /\ pc \notin SetupPcs =>
                 /\ pc' \notin SetupPcs
                 /\ UNCHANGED << demucs_model, is_compilation, create_normalized,
                                 audio_files >>
           /\ (pc \in SetupPcs /\ pc' \in SetupPcs) =>
                 pc' = (CASE pc = "start" -> "model"
                          [] pc = "model" -> "compilation"
                          [] pc = "compilation" -> "normalization"
                          [] pc = "normalization" -> "discover"
                          [] pc = "discover" -> "none") ]_vars
    /\ [](pc \in SetupPcs => log = << >>)
    /\ [](/\ \A k \in Called("separate") : log[k][2] \in Tracks
          /\ \A k \in TrackStamps :
                log[k][4]["DESCRIPTION"] = "Stem Separation Model = " \o demucs_model
          /\ \A i \in DOMAIN outcome :
                outcome[i] = "done" =>
                    (is_compilation <=>
                        \E k \in Called("rsgain_track") :
                            log[k][2] = OutputFilename(audio_files[i]))
          /\ pc \in {"norm", "normgain"} => create_normalized)

\* a compilation run with normalization, on a model that is not the default,
\* has processed two Tracks to the end
C22_Witness ==
    /\ pc = "done"
    /\ is_compilation
    /\ create_normalized
    /\ demucs_model = "htdemucs_ft.yaml"
    /\ Len(audio_files) = 2
    /\ \A i \in DOMAIN outcome : outcome[i] = "done"
    /\ nidx = 3

====
